---- MODULE Spec2Model ----
(***************************************************************************)
(* Model of src/src/utils.py: the EIS pipeline                             *)
(*   parse_eis_filename  -> load_single_eis -> load_all_eis                *)
(*   compute_impedance_features -> build_impedance_feature_table           *)
(*                                                                         *)
(* Text is modelled as sequences of one-character strings so that          *)
(* str.split, str.replace, int() and Path.stem are computed as Python      *)
(* computes them.  Frequencies are integers in milli-hertz (0.01 Hz = 10). *)
(***************************************************************************)
EXTENDS Integers, Sequences, FiniteSets, TLC

VARIABLES
    pc,              \* the call that runs and its position, "done" after it
    name,            \* parse_eis_filename: path.name
    parsed,          \* parse_eis_filename: what the call gave
    source,          \* load_single_eis: the file behind path
    spectrum,        \* load_single_eis: what the call gave
    eis_index,       \* load_all_eis: the rows of eis_index
    i,               \* load_all_eis: rows of eis_index consumed so far
    all_records,     \* load_all_eis: the list all_records
    reads,           \* load_all_eis: the sources handed to read_excel, in order
    eis_long,        \* load_all_eis: what the call gave
    group,           \* compute_impedance_features: the argument
    g,               \* compute_impedance_features: group.sort_values(...)
    features,        \* compute_impedance_features: what the call gave
    eis_long_df,     \* build_impedance_feature_table: the argument
    groups_left,     \* build_impedance_feature_table: keys groupby has yet to yield
    feature_records, \* build_impedance_feature_table: the list feature_records
    features_df      \* build_impedance_feature_table: what the call gave

vars == <<pc, name, parsed, source, spectrum, eis_index, i, all_records, reads,
          eis_long, group, g, features, eis_long_df, groups_left,
          feature_records, features_df>>

(***************************************************************************)
(* Bounds of the model                                                     *)
(***************************************************************************)
MaxDefects == 1
MaxRows == 3
MaxFiles == 3
MaxPoints == 3
MaxLongRows == 3

(***************************************************************************)
(* Text helpers                                                            *)
(***************************************************************************)
Digits == {"0", "1", "2", "3", "4", "5", "6", "7", "8", "9"}

DigitVal(c) ==
    CASE c = "0" -> 0 [] c = "1" -> 1 [] c = "2" -> 2 [] c = "3" -> 3
      [] c = "4" -> 4 [] c = "5" -> 5 [] c = "6" -> 6 [] c = "7" -> 7
      [] c = "8" -> 8 [] c = "9" -> 9

DigitChar(d) ==
    CASE d = 0 -> "0" [] d = 1 -> "1" [] d = 2 -> "2" [] d = 3 -> "3"
      [] d = 4 -> "4" [] d = 5 -> "5" [] d = 6 -> "6" [] d = 7 -> "7"
      [] d = 8 -> "8" [] d = 9 -> "9"

\* s[k .. k+Len(old)-1] = old
MatchAt(s, old, k) ==
    /\ k + Len(old) - 1 <= Len(s)
    /\ \A j \in 1..Len(old) : s[k + j - 1] = old[j]

\* str.replace(old, new): every non-overlapping occurrence, left to right
RECURSIVE ReplaceFrom(_, _, _, _)
ReplaceFrom(s, old, new, k) ==
    IF k > Len(s) THEN <<>>
    ELSE IF MatchAt(s, old, k) THEN new \o ReplaceFrom(s, old, new, k + Len(old))
    ELSE <<s[k]>> \o ReplaceFrom(s, old, new, k + 1)

StrReplace(s, old, new) == ReplaceFrom(s, old, new, 1)

\* str.split(sep) for a one-character sep: the pieces between separators
RECURSIVE SplitFrom(_, _, _, _)
SplitFrom(s, sep, k, cur) ==
    IF k > Len(s) THEN <<cur>>
    ELSE IF s[k] = sep THEN <<cur>> \o SplitFrom(s, sep, k + 1, <<>>)
    ELSE SplitFrom(s, sep, k + 1, Append(cur, s[k]))

StrSplit(s, sep) == SplitFrom(s, sep, 1, <<>>)

\* Path.stem: the name without its last suffix; a dot that starts or ends
\* the name opens no suffix
Stem(nm) ==
    LET dots == {k \in 1..Len(nm) : nm[k] = "."}
    IN  IF dots = {} THEN nm
        ELSE LET last == CHOOSE k \in dots : \A j \in dots : j <= k
             IN  IF 1 < last /\ last < Len(nm) THEN SubSeq(nm, 1, last - 1)
                 ELSE nm

\* str.strip() of blanks
RECURSIVE LStrip(_)
LStrip(s) == IF s # <<>> /\ Head(s) = " " THEN LStrip(Tail(s)) ELSE s

RECURSIVE RStrip(_)
RStrip(s) ==
    IF s # <<>> /\ s[Len(s)] = " " THEN RStrip(SubSeq(s, 1, Len(s) - 1)) ELSE s

\* DigitsValue without the place values
RECURSIVE DigitsValueNoPlace(_)
DigitsValueNoPlace(s) ==
    IF s = <<>> THEN 0
    ELSE DigitsValueNoPlace(SubSeq(s, 1, Len(s) - 1)) + DigitVal(s[Len(s)])

RECURSIVE DigitsValue(_)
DigitsValue(s) ==
    IF s = <<>> THEN 0
    ELSE 10 * DigitsValue(SubSeq(s, 1, Len(s) - 1)) + DigitVal(s[Len(s)])

NoInt == [ok |-> FALSE, v |-> 0]

\* int(text): blanks stripped, an optional sign, then one or more decimal
\* digits; anything else is a ValueError
PyInt(text) ==
    LET t    == RStrip(LStrip(text))
        sgn  == t # <<>> /\ Head(t) \in {"+", "-"}
        body == IF sgn THEN Tail(t) ELSE t
    IN  IF body = <<>> \/ \E k \in 1..Len(body) : body[k] \notin Digits
        THEN NoInt
        ELSE [ok |-> TRUE,
              v  |-> IF sgn /\ Head(t) = "-" THEN 0 - DigitsValue(body)
                     ELSE DigitsValue(body)]

(***************************************************************************)
(* parse_eis_filename                                                      *)
(***************************************************************************)
TagCell == <<"C", "e", "l", "l">>
TagSOH  == <<"S", "O", "H">>
TagDegC == <<"d", "e", "g", "C">>
TagSOC  == <<"S", "O", "C">>

NoMeta == [filepath |-> <<>>, cell_id |-> 0, soh_pct |-> 0, temp_c |-> 0,
           soc_pct |-> 0, capacity_code |-> 0]

NotCalled  == [status |-> "none", value |-> NoMeta]
ValueError == [status |-> "ValueError", value |-> NoMeta]

\* parse_eis_filename that only asks for at least five tokens
parse_eis_filename_atleast5(path) ==
    LET stem  == Stem(path)
        parts == StrSplit(stem, "_")
    IN  IF Len(parts) < 5 THEN ValueError
        ELSE LET cell_id == PyInt(StrReplace(parts[1], TagCell, <<>>))
                 soh_pct == PyInt(StrReplace(parts[2], TagSOH, <<>>))
                 temp_c  == PyInt(StrReplace(parts[3], TagDegC, <<>>))
                 soc_pct == PyInt(StrReplace(parts[4], TagSOC, <<>>))
                 capacity_code == PyInt(parts[5])
             IN  IF ~(cell_id.ok /\ soh_pct.ok /\ temp_c.ok /\ soc_pct.ok
                       /\ capacity_code.ok)
                 THEN ValueError
                 ELSE [status |-> "ok",
                       value  |-> [filepath |-> path,
                                   cell_id |-> cell_id.v,
                                   soh_pct |-> soh_pct.v,
                                   temp_c |-> temp_c.v,
                                   soc_pct |-> soc_pct.v,
                                   capacity_code |-> capacity_code.v]]

parse_eis_filename(path) ==
    LET stem  == Stem(path)
        parts == StrSplit(stem, "_")
    IN  IF Len(parts) # 5 THEN ValueError
        ELSE LET cell_id == PyInt(StrReplace(parts[1], TagCell, <<>>))
                 soh_pct == PyInt(StrReplace(parts[2], TagSOH, <<>>))
                 temp_c  == PyInt(StrReplace(parts[3], TagDegC, <<>>))
                 soc_pct == PyInt(StrReplace(parts[4], TagSOC, <<>>))
                 capacity_code == PyInt(parts[5])
             IN  IF ~(cell_id.ok /\ soh_pct.ok /\ temp_c.ok /\ soc_pct.ok
                       /\ capacity_code.ok)
                 THEN ValueError
                 ELSE [status |-> "ok",
                       value  |-> [filepath |-> path,
                                   cell_id |-> cell_id.v,
                                   soh_pct |-> soh_pct.v,
                                   temp_c |-> temp_c.v,
                                   soc_pct |-> soc_pct.v,
                                   capacity_code |-> capacity_code.v]]

(***************************************************************************)
(* load_single_eis                                                         *)
(***************************************************************************)
\* one cell of the sheet as read_excel(header=None) gives it: a number, a
\* text or an empty cell (NaN)
NumCell(n)  == [kind |-> "num", v |-> n, text |-> <<>>]
TextCell(t) == [kind |-> "str", v |-> 0, text |-> t]
EmptyCell   == [kind |-> "nan", v |-> 0, text |-> <<>>]

NaN == [nan |-> TRUE, v |-> 0]

\* pd.to_numeric(..., errors="coerce") on one cell: a number stays, a text
\* that reads as a number becomes that number, anything else becomes NaN
to_numeric(cell) ==
    CASE cell.kind = "num" -> [nan |-> FALSE, v |-> cell.v]
      [] cell.kind = "str" ->
            LET n == PyInt(cell.text)
            IN  IF n.ok THEN [nan |-> FALSE, v |-> n.v] ELSE NaN
      [] OTHER -> NaN

Min(a, b) == IF a <= b THEN a ELSE b

NoSpectrum  == [status |-> "none", rows |-> <<>>]
ReadError   == [status |-> "IOError", rows |-> <<>>]
LengthError == [status |-> "ValueError", rows |-> <<>>]

\* dropna(subset=["frequency_hz"]): only the first column decides
DropNaFrequencyOnly(frequency_hz, z_real_ohm, z_imag_ohm, k, n) ==
    SelectSeq([j \in 1..n |-> j], LAMBDA j : j >= k /\ ~frequency_hz[j].nan)

\* the index labels dropna(subset=...) keeps, in order
RECURSIVE DropNa(_, _, _, _, _)
DropNa(frequency_hz, z_real_ohm, z_imag_ohm, k, n) ==
    IF k > n THEN <<>>
    ELSE IF frequency_hz[k].nan \/ z_real_ohm[k].nan \/ z_imag_ohm[k].nan
         THEN DropNa(frequency_hz, z_real_ohm, z_imag_ohm, k + 1, n)
         ELSE <<k>> \o DropNa(frequency_hz, z_real_ohm, z_imag_ohm, k + 1, n)

load_single_eis(src) ==
    IF ~src.readable THEN ReadError
    ELSE
        LET df    == src.table
            n     == Len(df)
            width == IF n = 0 THEN 0 ELSE Len(df[1])
        IN  \* df.iloc[:, :3] keeps Min(width, 3) columns; naming three
            \* columns on fewer is a length mismatch
            IF Min(width, 3) # 3 THEN LengthError
            ELSE
                LET frequency_hz == [k \in 1..n |-> to_numeric(df[k][1])]
                    z_real_ohm   == [k \in 1..n |-> to_numeric(df[k][2])]
                    z_imag_ohm   == [k \in 1..n |-> to_numeric(df[k][3])]
                    kept == DropNa(frequency_hz, z_real_ohm, z_imag_ohm, 1, n)
                IN  [status |-> "ok",
                     rows   |-> [j \in 1..Len(kept) |->
                                   [frequency_hz |-> frequency_hz[kept[j]].v,
                                    z_real_ohm   |-> z_real_ohm[kept[j]].v,
                                    z_imag_ohm   |-> z_imag_ohm[kept[j]].v]]]

(***************************************************************************)
(* Values of the variables a call does not use                             *)
(***************************************************************************)
NoSource == [readable |-> FALSE, table |-> <<>>]
NoLong   == [status |-> "none", rows |-> <<>>]
NoFeatures == [status |-> "none", feats |-> <<>>]
NoTable  == [status |-> "none", records |-> <<>>]

IdleDecoder   == name = <<>> /\ parsed = NotCalled
IdleLoader    == source = NoSource /\ spectrum = NoSpectrum
IdleAssembler == /\ eis_index = <<>> /\ i = 0 /\ all_records = <<>>
                 /\ reads = <<>> /\ eis_long = NoLong
IdleExtractor == group = <<>> /\ g = <<>> /\ features = NoFeatures
IdleBuilder   == /\ eis_long_df = <<>> /\ groups_left = <<>>
                 /\ feature_records = <<>> /\ features_df = NoTable

varsDecoder   == <<name, parsed>>
varsLoader    == <<source, spectrum>>
varsAssembler == <<eis_index, i, all_records, reads, eis_long>>
varsExtractor == <<group, g, features>>
varsBuilder   == <<eis_long_df, groups_left, feature_records, features_df>>

(***************************************************************************)
(* The file names the decoder is run on                                    *)
(***************************************************************************)
NumStrs == {<<"1", "2">>, <<"7">>, <<"0", "5">>, <<"x">>}
PlainNums == {<<"1", "2">>, <<"7">>}
Placements == {"proper", "missing", "swapped", "repeated"}
Exts == {<<>>, <<".", "x", "l", "s">>}

\* a token with its tag before ("pre") or after ("post") the number
Token(tag, side, num, placement) ==
    CASE placement = "missing"  -> num
      [] placement = "repeated" ->
            IF side = "pre" THEN tag \o tag \o num ELSE num \o tag \o tag
      [] placement = "swapped"  ->
            IF side = "pre" THEN num \o tag ELSE tag \o num
      [] OTHER ->
            IF side = "pre" THEN tag \o num ELSE num \o tag

RECURSIVE JoinWith(_, _)
JoinWith(parts, sep) ==
    IF parts = <<>> THEN <<>>
    ELSE IF Len(parts) = 1 THEN parts[1]
    ELSE parts[1] \o <<sep>> \o JoinWith(Tail(parts), sep)

\* a token written as in the docstring's example, its number without a
\* leading zero
PlainTokens == PlainNums \X {"proper"}

\* every other way to write the token at position k (the fifth has no tag)
OddTokens(k) ==
    (NumStrs \X (IF k = 5 THEN {"proper"} ELSE Placements)) \ PlainTokens

PickToken(k, odd) == IF k \in odd THEN OddTokens(k) ELSE PlainTokens

\* the choices of five tokens of which at most maxOdd are not plain
TokenChoices(maxOdd) ==
    UNION { PickToken(1, odd) \X PickToken(2, odd) \X PickToken(3, odd)
              \X PickToken(4, odd) \X PickToken(5, odd) :
            odd \in {d \in SUBSET (1..5) : Cardinality(d) <= maxOdd} }

\* names of four, five or six tokens, with or without an extension
FileNames(maxOdd) ==
    { JoinWith(SubSeq(<<Token(TagCell, "pre",  tk[1][1], tk[1][2]),
                        Token(TagSOH,  "post", tk[2][1], tk[2][2]),
                        Token(TagDegC, "post", tk[3][1], tk[3][2]),
                        Token(TagSOC,  "post", tk[4][1], tk[4][2]),
                        tk[5][1], <<"9">> >>, 1, count), "_") \o ext :
        <<tk, count, ext>> \in TokenChoices(maxOdd) \X {4, 5, 6} \X Exts }

InitDecoder ==
    /\ pc = "decode"
    /\ name \in FileNames(MaxDefects)
    /\ parsed = NotCalled
    /\ IdleLoader /\ IdleAssembler /\ IdleExtractor /\ IdleBuilder

ParseEisFilename ==
    /\ pc = "decode"
    /\ parsed' = parse_eis_filename(name)
    /\ pc' = "done"
    /\ UNCHANGED <<name, varsLoader, varsAssembler, varsExtractor, varsBuilder>>

NextDecoder == ParseEisFilename

SpecDecoder == InitDecoder /\ [][NextDecoder]_vars

(***************************************************************************)
(* The sources the loader is run on                                        *)
(***************************************************************************)
Col1 == {NumCell(5), NumCell(20), TextCell(<<"F", "r", "e", "q">>)}
Col2 == {NumCell(1), TextCell(<<"Z", "r", "e">>), EmptyCell}
Col3 == {TextCell(<<"-", "7">>), TextCell(<<"Z", "i", "m">>)}
Widths == {2, 3, 4}

\* a row of the sheet, `width` cells wide
SheetRow(c1, c2, c3, width) ==
    SubSeq(<<c1, c2, c3, TextCell(<<"n", "o", "t", "e">>)>>, 1, width)

\* the sheet of the given rows, `width` cells wide
Sheet(body, width) ==
    [k \in 1..Len(body) |-> SheetRow(body[k][1], body[k][2], body[k][3], width)]

InitLoader ==
    /\ pc = "load"
    /\ \/ source = NoSource
       \/ \E n \in 0..MaxRows, width \in Widths :
             \E body \in [1..n -> Col1 \X Col2 \X Col3] :
                source = [readable |-> TRUE, table |-> Sheet(body, width)]
    /\ spectrum = NoSpectrum
    /\ IdleDecoder /\ IdleAssembler /\ IdleExtractor /\ IdleBuilder

LoadSingleEis ==
    /\ pc = "load"
    /\ spectrum' = load_single_eis(source)
    /\ pc' = "done"
    /\ UNCHANGED <<source, varsDecoder, varsAssembler, varsExtractor, varsBuilder>>

NextLoader == LoadSingleEis

SpecLoader == InitLoader /\ [][NextLoader]_vars

(***************************************************************************)
(* load_all_eis                                                            *)
(***************************************************************************)
\* spec[col] = meta[col] for the five columns: every row of the spectrum
\* gets the identity of the index row
AttachMeta(rows, meta) ==
    [k \in 1..Len(rows) |->
        [cell_id       |-> meta.cell_id,
         soh_pct       |-> meta.soh_pct,
         temp_c        |-> meta.temp_c,
         soc_pct       |-> meta.soc_pct,
         capacity_code |-> meta.capacity_code,
         frequency_hz  |-> rows[k].frequency_hz,
         z_real_ohm    |-> rows[k].z_real_ohm,
         z_imag_ohm    |-> rows[k].z_imag_ohm]]

\* frames put together last first
RECURSIVE ConcatReversed(_)
ConcatReversed(frames) ==
    IF frames = <<>> THEN <<>> ELSE ConcatReversed(Tail(frames)) \o Head(frames)

\* pd.concat(frames, ignore_index=True): the rows of the frames, in order
RECURSIVE Concat(_)
Concat(frames) ==
    IF frames = <<>> THEN <<>> ELSE Head(frames) \o Concat(Tail(frames))

\* one pass of the for loop in which load_single_eis returns
LoadSpectrum ==
    /\ pc = "files"
    /\ i < Len(eis_index)
    /\ LET meta == eis_index[i + 1]
           spec == load_single_eis(meta.filepath)
       IN  /\ spec.status = "ok"
           /\ all_records' = Append(all_records, AttachMeta(spec.rows, meta))
    /\ reads' = Append(reads, i + 1)
    /\ i' = i + 1
    /\ UNCHANGED <<pc, eis_index, eis_long>>
    /\ UNCHANGED <<varsDecoder, varsLoader, varsExtractor, varsBuilder>>

\* a loop that skips a file it cannot load and goes on
LoadRaisesSkipped ==
    /\ pc = "files"
    /\ i < Len(eis_index)
    /\ load_single_eis(eis_index[i + 1].filepath).status # "ok"
    /\ reads' = Append(reads, i + 1)
    /\ i' = i + 1
    /\ UNCHANGED <<pc, eis_index, all_records, eis_long>>
    /\ UNCHANGED <<varsDecoder, varsLoader, varsExtractor, varsBuilder>>

\* one pass of the for loop in which load_single_eis raises: nothing
\* catches it, the call ends with that error
LoadRaises ==
    /\ pc = "files"
    /\ i < Len(eis_index)
    /\ LET meta == eis_index[i + 1]
           spec == load_single_eis(meta.filepath)
       IN  /\ spec.status # "ok"
           /\ eis_long' = [status |-> spec.status, rows |-> <<>>]
    /\ reads' = Append(reads, i + 1)
    /\ pc' = "done"
    /\ UNCHANGED <<eis_index, i, all_records>>
    /\ UNCHANGED <<varsDecoder, varsLoader, varsExtractor, varsBuilder>>

\* after the loop: pd.concat, which raises ValueError on an empty list
ConcatRecords ==
    /\ pc = "files"
    /\ i = Len(eis_index)
    /\ eis_long' = IF all_records = <<>>
                   THEN [status |-> "ValueError", rows |-> <<>>]
                   ELSE [status |-> "ok", rows |-> Concat(all_records)]
    /\ pc' = "done"
    /\ UNCHANGED <<eis_index, i, all_records, reads>>
    /\ UNCHANGED <<varsDecoder, varsLoader, varsExtractor, varsBuilder>>

\* the files and identities the assembler is run on
HeaderRow == SheetRow(TextCell(<<"F", "r", "e", "q">>), TextCell(<<"Z", "r", "e">>),
                      TextCell(<<"Z", "i", "m">>), 3)
DataRow(f, re, im) == SheetRow(NumCell(f), NumCell(re), NumCell(im), 3)

Files ==
    { NoSource,
      [readable |-> TRUE, table |-> <<HeaderRow>>],
      [readable |-> TRUE, table |-> <<DataRow(5, 1, -2)>>],
      [readable |-> TRUE,
       table |-> <<DataRow(20, 3, -4), HeaderRow, DataRow(15, 6, -7)>>] }

Identities ==
    { [cell_id |-> 1, soh_pct |-> 100, temp_c |-> 25, soc_pct |-> 50,
       capacity_code |-> 1000],
      [cell_id |-> 1, soh_pct |-> 100, temp_c |-> 25, soc_pct |-> 50,
       capacity_code |-> 1001],
      [cell_id |-> 2, soh_pct |-> 95, temp_c |-> 15, soc_pct |-> 5,
       capacity_code |-> 9505] }

IndexRows ==
    { [filepath |-> f, cell_id |-> id.cell_id, soh_pct |-> id.soh_pct,
       temp_c |-> id.temp_c, soc_pct |-> id.soc_pct,
       capacity_code |-> id.capacity_code] : <<f, id>> \in Files \X Identities }

InitAssembler ==
    /\ pc = "files"
    /\ \E n \in 0..MaxFiles : eis_index \in [1..n -> IndexRows]
    /\ i = 0
    /\ all_records = <<>>
    /\ reads = <<>>
    /\ eis_long = NoLong
    /\ IdleDecoder /\ IdleLoader /\ IdleExtractor /\ IdleBuilder

NextAssembler == LoadSpectrum \/ LoadRaises \/ ConcatRecords

SpecAssembler == InitAssembler /\ [][NextAssembler]_vars

(***************************************************************************)
(* compute_impedance_features                                              *)
(***************************************************************************)
\* the orders group.sort_values("frequency_hz") may give: ascending by
\* frequency; the default sort is not stable, so rows of equal frequency
\* come out in any order
SortValues(grp) ==
    { [k \in 1..Len(grp) |-> grp[p[k]]] :
        p \in {q \in Permutations(1..Len(grp)) :
                 \A a, b \in 1..Len(grp) :
                    a < b => grp[q[a]].frequency_hz <= grp[q[b]].frequency_hz} }

\* np.abs and np.angle of z_real + 1j * z_imag, kept as terms: equal terms
\* are equal values
Abs(re, im)   == <<"abs", re, im>>
Angle(re, im) == <<"angle", re, im>>
Real(x)       == <<"real", x>>
Stat(fn, arr) == <<fn, arr>>

\* np.argmax / np.argmin: the first index of the largest / smallest entry
ArgMax(arr) ==
    CHOOSE k \in 1..Len(arr) :
        /\ \A j \in 1..Len(arr) : arr[j] <= arr[k]
        /\ \A j \in 1..(k - 1) : arr[j] < arr[k]

\* the last index of the smallest entry
ArgMinLast(arr) ==
    CHOOSE k \in 1..Len(arr) :
        /\ \A j \in 1..Len(arr) : arr[k] <= arr[j]
        /\ \A j \in (k + 1)..Len(arr) : arr[k] < arr[j]

ArgMin(arr) ==
    CHOOSE k \in 1..Len(arr) :
        /\ \A j \in 1..Len(arr) : arr[k] <= arr[j]
        /\ \A j \in 1..(k - 1) : arr[k] < arr[j]

AbsDiff(a, b) == IF a >= b THEN a - b ELSE b - a

\* f_targets, in milli-hertz
f_targets == <<10, 100, 1000, 10000, 100000, 1000000, 10000000>>

RECURSIVE NatStr(_)
NatStr(n) ==
    IF n < 10 THEN <<DigitChar(n)>>
    ELSE NatStr(n \div 10) \o <<DigitChar(n % 10)>>

\* the digits of a fraction given in thousandths, without trailing zeros
\* but never empty
FracStr(m) ==
    IF m % 1000 = 0 THEN <<"0">>
    ELSE IF m % 100 = 0 THEN <<DigitChar(m \div 100)>>
    ELSE IF m % 10 = 0 THEN <<DigitChar(m \div 100), DigitChar((m \div 10) % 10)>>
    ELSE <<DigitChar(m \div 100), DigitChar((m \div 10) % 10), DigitChar(m % 10)>>

\* str(f_target) of the float f_target = mhz / 1000: "0.01", "1.0", "10000.0"
FloatStr(mhz) == NatStr(mhz \div 1000) \o <<".">> \o FracStr(mhz % 1000)

RECURSIVE AsString(_)
AsString(chars) ==
    IF chars = <<>> THEN "" ELSE Head(chars) \o AsString(Tail(chars))

\* the suffix from the whole hertz of the target: str(int(f_target))
SuffixWholeHertz(f_target) == AsString(NatStr(f_target \div 1000))

\* suffix = str(f_target).replace(".", "p")
Suffix(f_target) == AsString(StrReplace(FloatStr(f_target), <<".">>, <<"p">>))

\* the loop over f_targets from the k-th target on; assigning to a key
\* that is already there overwrites it
RECURSIVE SampleTargets(_, _, _, _, _)
SampleTargets(feats, freq, mag, phase, k) ==
    IF k > Len(f_targets) THEN feats
    ELSE
        LET f_target == f_targets[k]
            idx    == ArgMin([j \in 1..Len(freq) |-> AbsDiff(freq[j], f_target)])
            suffix == Suffix(f_target)
            zmag   == (("Zmag_f" \o suffix) :> mag[idx]) @@ feats
        IN  SampleTargets((("phase_f" \o suffix) :> phase[idx]) @@ zmag,
                          freq, mag, phase, k + 1)

FeatureError == [status |-> "ValueError", feats |-> <<>>]

\* the body of compute_impedance_features after the sort; sorted is g
compute_impedance_features(sorted) ==
    LET freq   == [k \in 1..Len(sorted) |-> sorted[k].frequency_hz]
        z_real == [k \in 1..Len(sorted) |-> sorted[k].z_real_ohm]
        z_imag == [k \in 1..Len(sorted) |-> sorted[k].z_imag_ohm]
        mag    == [k \in 1..Len(sorted) |-> Abs(z_real[k], z_imag[k])]
        phase  == [k \in 1..Len(sorted) |-> Angle(z_real[k], z_imag[k])]
    IN  \* np.argmax of an empty array raises ValueError
        IF Len(sorted) = 0 THEN FeatureError
        ELSE
            LET idx_hf == ArgMax(freq)
                idx_lf == ArgMin(freq)
                R_hf   == z_real[idx_hf]
                R_lf   == z_real[idx_lf]
                summary ==
                    [R_hf_ohm    |-> Real(R_hf),
                     R_lf_ohm    |-> Real(R_lf),
                     delta_R_ohm |-> Real(R_lf - R_hf),
                     Zmag_mean   |-> Stat("mean", mag),
                     Zmag_std    |-> Stat("std", mag),
                     Zmag_min    |-> Stat("min", mag),
                     Zmag_max    |-> Stat("max", mag),
                     phase_mean  |-> Stat("mean", phase),
                     phase_std   |-> Stat("std", phase)]
            IN  [status |-> "ok",
                 feats  |-> SampleTargets(summary, freq, mag, phase, 1)]

ComputeImpedanceFeatures ==
    /\ pc = "extract"
    /\ \E sorted \in SortValues(group) :
          /\ g' = sorted
          /\ features' = compute_impedance_features(sorted)
    /\ pc' = "done"
    /\ UNCHANGED <<group, varsDecoder, varsLoader, varsAssembler, varsBuilder>>

\* the spectra the extractor is run on
Frequencies == {5, 15, 20, 550, 50000000}

Points ==
    { [frequency_hz |-> f, z_real_ohm |-> re, z_imag_ohm |-> -1] :
        <<f, re>> \in Frequencies \X {1, 2} }

InitExtractor ==
    /\ pc = "extract"
    /\ \E n \in 0..MaxPoints : group \in [1..n -> Points]
    /\ g = <<>>
    /\ features = NoFeatures
    /\ IdleDecoder /\ IdleLoader /\ IdleAssembler /\ IdleBuilder

NextExtractor == ComputeImpedanceFeatures

SpecExtractor == InitExtractor /\ [][NextExtractor]_vars

(***************************************************************************)
(* build_impedance_feature_table                                           *)
(***************************************************************************)
\* grouping by the whole identity
GROUP_COLS_all_five == <<"cell_id", "soh_pct", "temp_c", "soc_pct", "capacity_code">>

GROUP_COLS == <<"cell_id", "soh_pct", "temp_c", "soc_pct">>

\* the values of the grouping columns in one row
KeyOf(row) == [c \in 1..Len(GROUP_COLS) |-> row[GROUP_COLS[c]]]

\* tuples of equal length, compared from the first column on
LexLess(a, b) ==
    \E c \in 1..Len(a) :
        /\ a[c] < b[c]
        /\ \A d \in 1..(c - 1) : a[d] = b[d]

RECURSIVE SortedKeys(_)
SortedKeys(keys) ==
    IF keys = {} THEN <<>>
    ELSE LET first == CHOOSE k \in keys : \A other \in keys \ {k} : LexLess(k, other)
         IN  <<first>> \o SortedKeys(keys \ {first})

\* the keys groupby(GROUP_COLS) yields: the distinct keys, sorted
GroupKeys(df) == SortedKeys({KeyOf(df[k]) : k \in 1..Len(df)})

RECURSIVE RowsOf(_, _)
\* the rows of one group, in the frame's order
RowsOf(df, keys) ==
    IF df = <<>> THEN <<>>
    ELSE IF KeyOf(Head(df)) = keys THEN <<Head(df)>> \o RowsOf(Tail(df), keys)
    ELSE RowsOf(Tail(df), keys)

\* record = dict(zip(GROUP_COLS, keys)); record.update(feats)
FeatureRecord(keys, feats) ==
    feats @@ [col \in {GROUP_COLS[c] : c \in 1..Len(GROUP_COLS)} |->
                 keys[CHOOSE c \in 1..Len(GROUP_COLS) : GROUP_COLS[c] = col]]

\* groupby is set up: the loop is about to start
GroupBy ==
    /\ pc = "groupby"
    /\ groups_left' = GroupKeys(eis_long_df)
    /\ pc' = "groups"
    /\ UNCHANGED <<eis_long_df, feature_records, features_df>>
    /\ UNCHANGED <<varsDecoder, varsLoader, varsAssembler, varsExtractor>>

\* one pass of the loop over the groups
FeaturesOfGroup ==
    /\ pc = "groups"
    /\ groups_left # <<>>
    /\ LET keys == Head(groups_left)
       IN  \E sorted \in SortValues(RowsOf(eis_long_df, keys)) :
              LET feats == compute_impedance_features(sorted)
              IN  IF feats.status = "ok"
                  THEN /\ feature_records' =
                             Append(feature_records, FeatureRecord(keys, feats.feats))
                       /\ groups_left' = Tail(groups_left)
                       /\ UNCHANGED <<pc, features_df>>
                  ELSE /\ features_df' = [status |-> feats.status, records |-> <<>>]
                       /\ pc' = "done"
                       /\ UNCHANGED <<groups_left, feature_records>>
    /\ UNCHANGED eis_long_df
    /\ UNCHANGED <<varsDecoder, varsLoader, varsAssembler, varsExtractor>>

\* after the loop: features_df = pd.DataFrame(feature_records)
MakeFeatureTable ==
    /\ pc = "groups"
    /\ groups_left = <<>>
    /\ features_df' = [status |-> "ok", records |-> feature_records]
    /\ pc' = "done"
    /\ UNCHANGED <<eis_long_df, groups_left, feature_records>>
    /\ UNCHANGED <<varsDecoder, varsLoader, varsAssembler, varsExtractor>>

\* the long-format rows the builder is run on
LongRows ==
    { [cell_id |-> c, soh_pct |-> 100, temp_c |-> 25, soc_pct |-> 50,
       capacity_code |-> cap, frequency_hz |-> f, z_real_ohm |-> 1,
       z_imag_ohm |-> -1] :
        <<c, cap, f>> \in {1, 2} \X {1000, 1001} \X {5, 15, 20} }

InitBuilder ==
    /\ pc = "groupby"
    /\ \E n \in 0..MaxLongRows : eis_long_df \in [1..n -> LongRows]
    /\ groups_left = <<>>
    /\ feature_records = <<>>
    /\ features_df = NoTable
    /\ IdleDecoder /\ IdleLoader /\ IdleAssembler /\ IdleExtractor

NextBuilder == GroupBy \/ FeaturesOfGroup \/ MakeFeatureTable

SpecBuilder == InitBuilder /\ [][NextBuilder]_vars

(***************************************************************************)
(* Any one call of the module                                              *)
(***************************************************************************)
Init == InitDecoder \/ InitLoader \/ InitAssembler \/ InitExtractor \/ InitBuilder

Next == NextDecoder \/ NextLoader \/ NextAssembler \/ NextExtractor \/ NextBuilder

Spec == Init /\ [][Next]_vars

(***************************************************************************)
(* Properties of parse_eis_filename                                        *)
(***************************************************************************)
IsDigitText(s) == s # <<>> /\ \A k \in 1..Len(s) : s[k] \in Digits

\* s reads as an integer: blanks around an optional sign and digits
IsIntText(s) ==
    \E a, b \in 0..Len(s) :
        /\ a + b < Len(s)
        /\ \A k \in 1..a : s[k] = " "
        /\ \A k \in (Len(s) - b + 1)..Len(s) : s[k] = " "
        /\ LET m == SubSeq(s, a + 1, Len(s) - b)
           IN  IsDigitText(IF m[1] \in {"+", "-"} THEN Tail(m) ELSE m)

Tags == <<TagCell, TagSOH, TagDegC, TagSOC>>

\* what is left of the k-th token once its tag is removed
Remainder(parts, k) ==
    IF k = 5 THEN parts[5] ELSE StrReplace(parts[k], Tags[k], <<>>)

\* tok is <tag><int> / <int><tag>, <int> a run of digits
TagThenInt(tok, tag) ==
    /\ Len(tok) > Len(tag)
    /\ SubSeq(tok, 1, Len(tag)) = tag
    /\ IsDigitText(SubSeq(tok, Len(tag) + 1, Len(tok)))

IntThenTag(tok, tag) ==
    /\ Len(tok) > Len(tag)
    /\ SubSeq(tok, Len(tok) - Len(tag) + 1, Len(tok)) = tag
    /\ IsDigitText(SubSeq(tok, 1, Len(tok) - Len(tag)))

\* stem is Cell<int>_<int>SOH_<int>degC_<int>SOC_<int>
MatchesFormat(stem) ==
    LET parts == StrSplit(stem, "_")
    IN  /\ Len(parts) = 5
        /\ TagThenInt(parts[1], TagCell)
        /\ IntThenTag(parts[2], TagSOH)
        /\ IntThenTag(parts[3], TagDegC)
        /\ IntThenTag(parts[4], TagSOC)
        /\ IsDigitText(parts[5])

\* the five <int> of a stem that matches the format
IntTexts(stem) ==
    LET parts == StrSplit(stem, "_")
    IN  <<SubSeq(parts[1], Len(TagCell) + 1, Len(parts[1])),
          SubSeq(parts[2], 1, Len(parts[2]) - Len(TagSOH)),
          SubSeq(parts[3], 1, Len(parts[3]) - Len(TagDegC)),
          SubSeq(parts[4], 1, Len(parts[4]) - Len(TagSOC)),
          parts[5]>>

\* no <int> of the stem has a leading zero
CanonicalInts(stem) ==
    \A k \in 1..5 : IntTexts(stem)[k] = <<"0">> \/ IntTexts(stem)[k][1] # "0"

IntStr(n) == IF n < 0 THEN <<"-">> \o NatStr(0 - n) ELSE NatStr(n)

\* the template Cell<int>_<int>SOH_<int>degC_<int>SOC_<int> filled in
Encode(meta) ==
    TagCell \o IntStr(meta.cell_id) \o <<"_">>
      \o IntStr(meta.soh_pct) \o TagSOH \o <<"_">>
      \o IntStr(meta.temp_c) \o TagDegC \o <<"_">>
      \o IntStr(meta.soc_pct) \o TagSOC \o <<"_">>
      \o IntStr(meta.capacity_code)

DecoderDone == pc = "done" /\ parsed.status # "none"

\* C5: a name whose stem does not split into exactly five tokens, or in
\* which some token without its tag does not read as an integer, ends in
\* an error and gives no metadata, not even part of it
C5_MalformedRejected ==
    DecoderDone =>
        LET parts == StrSplit(Stem(name), "_")
        IN  (IF Len(parts) # 5 THEN TRUE
             ELSE \E k \in 1..5 : ~IsIntText(Remainder(parts, k)))
            => parsed = ValueError

C5_Witness ==
    /\ DecoderDone
    /\ Len(StrSplit(Stem(name), "_")) = 5
    /\ ~IsIntText(Remainder(StrSplit(Stem(name), "_"), 3))
    /\ parsed = ValueError

\* C6: every name whose stem is not Cell<int>_<int>SOH_<int>degC_<int>SOC_<int>
\* is rejected with an error
C6_StrictFormat ==
    DecoderDone => (~MatchesFormat(Stem(name)) => parsed.status = "ValueError")

\* C7 as stated: every stem of the literal format is reproduced by
\* decoding it and filling the template with the five integers
C7_RoundTrip ==
    DecoderDone /\ MatchesFormat(Stem(name)) =>
        parsed.status = "ok" /\ Encode(parsed.value) = Stem(name)

\* C7 amended: the round trip reproduces every stem of the literal format
\* whose integers are written without leading zeros
C7_RoundTripCanonical ==
    DecoderDone /\ MatchesFormat(Stem(name)) /\ CanonicalInts(Stem(name)) =>
        parsed.status = "ok" /\ Encode(parsed.value) = Stem(name)

C7_Witness ==
    /\ DecoderDone
    /\ MatchesFormat(Stem(name)) /\ CanonicalInts(Stem(name))
    /\ Stem(name) # name
    /\ parsed.status = "ok"
    /\ parsed.value.cell_id # parsed.value.soh_pct
    /\ Encode(parsed.value) = Stem(name)

(***************************************************************************)
(* Properties of load_single_eis                                           *)
(***************************************************************************)
\* the cell passes numeric coercion
NumericCell(cell) ==
    cell.kind = "num" \/ (cell.kind = "str" /\ IsIntText(cell.text))

\* the number in a cell that passes
CellValue(cell) == IF cell.kind = "num" THEN cell.v ELSE PyInt(cell.text).v

\* the first three cells of the row are there and numeric
NumericRow(row) == Len(row) >= 3 /\ \A c \in 1..3 : NumericCell(row[c])

LoaderDone == pc = "done" /\ spectrum.status # "none"

\* C2: a source none of whose rows has three numeric first cells makes
\* load_single_eis fail; it never returns an empty spectrum
C2_AllMalformedRejected ==
    LoaderDone =>
        ((\A k \in 1..Len(source.table) : ~NumericRow(source.table[k]))
            => spectrum.status # "ok")

\* C3: from a readable sheet of three or more columns load_single_eis
\* returns, without an error, exactly the rows whose first three cells are
\* all numeric, in their order and with their values; every other row is
\* dropped wherever it stands
C3_RowFilter ==
    LoaderDone /\ source.readable /\ source.table # <<>>
               /\ Len(source.table[1]) >= 3 =>
        LET good == SelectSeq(source.table, NumericRow)
        IN  /\ spectrum.status = "ok"
            /\ spectrum.rows =
                 [k \in 1..Len(good) |->
                    [frequency_hz |-> CellValue(good[k][1]),
                     z_real_ohm   |-> CellValue(good[k][2]),
                     z_imag_ohm   |-> CellValue(good[k][3])]]

C3_Witness ==
    /\ LoaderDone
    /\ Len(source.table) = 3
    /\ NumericRow(source.table[1])
    /\ ~NumericRow(source.table[2])
    /\ NumericRow(source.table[3])
    /\ source.table[1][1] # source.table[3][1]
    /\ spectrum.status = "ok"
    /\ Len(spectrum.rows) = 2

(***************************************************************************)
(* Properties of load_all_eis                                              *)
(***************************************************************************)
\* load_single_eis fails on the k-th row of eis_index
LoadFails(k) == load_single_eis(eis_index[k].filepath).status # "ok"

FailingRows == {k \in 1..Len(eis_index) : LoadFails(k)}

FirstFailing == CHOOSE k \in FailingRows : \A j \in FailingRows : k <= j

AssemblerDone == pc = "done" /\ eis_long.status # "none"

\* C1: when the loader fails on some file, no file after the first failing
\* one is ever read, and the call ends in that error and returns no rows
C1_FailFast ==
    FailingRows # {} =>
        /\ \A j \in 1..Len(reads) : reads[j] <= FirstFailing
        /\ eis_long.status # "ok"
        /\ eis_long.rows = <<>>
        /\ AssemblerDone =>
              /\ eis_long.status =
                    load_single_eis(eis_index[FirstFailing].filepath).status
              /\ reads = [j \in 1..FirstFailing |-> j]

C1_Witness ==
    /\ AssemblerDone
    /\ Len(eis_index) = 3
    /\ FailingRows = {2}
    /\ load_single_eis(eis_index[1].filepath).rows # <<>>
    /\ eis_long = [status |-> "IOError", rows |-> <<>>]
    /\ reads = <<1, 2>>

\* the rows the loader gives for the k-th row of eis_index
Loaded(k) == load_single_eis(eis_index[k].filepath).rows

RECURSIVE RowsBefore(_)
\* how many rows the files before the k-th give
RowsBefore(k) == IF k <= 1 THEN 0 ELSE RowsBefore(k - 1) + Len(Loaded(k - 1))

\* C8: when every load succeeds (and there is a file at all) the result is
\* the spectra one after the other in the order of eis_index, rows in the
\* loader's order, each row with the five identity fields of its own
\* index row; no row is lost, doubled or tagged with another identity
C8_OrderAndTags ==
    AssemblerDone /\ FailingRows = {} /\ eis_index # <<>> =>
        /\ eis_long.status = "ok"
        /\ Len(eis_long.rows) = RowsBefore(Len(eis_index) + 1)
        /\ \A k \in 1..Len(eis_index) : \A j \in 1..Len(Loaded(k)) :
              LET row == eis_long.rows[RowsBefore(k) + j]
              IN  /\ row.frequency_hz = Loaded(k)[j].frequency_hz
                  /\ row.z_real_ohm = Loaded(k)[j].z_real_ohm
                  /\ row.z_imag_ohm = Loaded(k)[j].z_imag_ohm
                  /\ row.cell_id = eis_index[k].cell_id
                  /\ row.soh_pct = eis_index[k].soh_pct
                  /\ row.temp_c = eis_index[k].temp_c
                  /\ row.soc_pct = eis_index[k].soc_pct
                  /\ row.capacity_code = eis_index[k].capacity_code

C8_Witness ==
    /\ AssemblerDone
    /\ FailingRows = {}
    /\ Len(eis_index) = 3
    /\ eis_index[1].cell_id # eis_index[2].cell_id
    /\ eis_index[2].capacity_code # eis_index[3].capacity_code
    /\ Len(Loaded(1)) = 2 /\ Len(Loaded(2)) = 1 /\ Len(Loaded(3)) = 2
    /\ eis_long.status = "ok"
    /\ Len(eis_long.rows) = 5

(***************************************************************************)
(* Properties of compute_impedance_features                                *)
(***************************************************************************)
\* the names of the sampled features, target by target
TargetTags == <<"0p01", "0p1", "1p0", "10p0", "100p0", "1000p0", "10000p0">>

ExtractorDone == pc = "done" /\ features.status # "none"

\* the first point of the sorted spectrum among those nearest to the target
Nearest(sorted, target) ==
    CHOOSE k \in 1..Len(sorted) :
        /\ \A j \in 1..Len(sorted) :
              AbsDiff(sorted[k].frequency_hz, target)
                <= AbsDiff(sorted[j].frequency_hz, target)
        /\ \A j \in 1..(k - 1) :
              AbsDiff(sorted[j].frequency_hz, target)
                # AbsDiff(sorted[k].frequency_hz, target)

\* C9: for each target the magnitude and phase recorded are those of the
\* point nearest in frequency, the first such point of the spectrum sorted
\* by ascending frequency when several are equally near; for frequencies
\* 0.005, 0.02, 50000 Hz the target 0.01 Hz takes the point at 0.005 Hz
C9_NearestFrequency ==
    ExtractorDone /\ group # <<>> =>
        /\ features.status = "ok"
        /\ Len(g) = Len(group)
        /\ \A a, b \in 1..Len(g) : a < b => g[a].frequency_hz <= g[b].frequency_hz
        /\ \A t \in 1..Len(f_targets) :
              LET p == g[Nearest(g, f_targets[t])]
              IN  /\ features.feats["Zmag_f" \o TargetTags[t]]
                        = Abs(p.z_real_ohm, p.z_imag_ohm)
                  /\ features.feats["phase_f" \o TargetTags[t]]
                        = Angle(p.z_real_ohm, p.z_imag_ohm)
        /\ [k \in 1..Len(g) |-> g[k].frequency_hz] = <<5, 20, 50000000>>
              => features.feats["Zmag_f0p01"] = Abs(g[1].z_real_ohm, g[1].z_imag_ohm)

C9_Witness ==
    /\ ExtractorDone
    /\ features.status = "ok"
    /\ Len(g) = 3
    /\ g[1].frequency_hz = 5 /\ g[2].frequency_hz = 15
    /\ g[1].z_real_ohm # g[2].z_real_ohm
    /\ features.feats["Zmag_f0p01"] = Abs(g[1].z_real_ohm, g[1].z_imag_ohm)

SummaryKeys ==
    {"R_hf_ohm", "R_lf_ohm", "delta_R_ohm", "Zmag_mean", "Zmag_std",
     "Zmag_min", "Zmag_max", "phase_mean", "phase_std"}

SampledKeys ==
    {"Zmag_f" \o TargetTags[t] : t \in 1..Len(TargetTags)}
      \cup {"phase_f" \o TargetTags[t] : t \in 1..Len(TargetTags)}

\* C10: for a spectrum of one or more rows the call does not raise and
\* gives 23 distinct keys: the 9 summary keys and, for each of the 7
\* targets, its own Zmag_f<tag> and phase_f<tag>
C10_FeatureKeys ==
    ExtractorDone /\ group # <<>> =>
        /\ features.status = "ok"
        /\ DOMAIN features.feats = SummaryKeys \cup SampledKeys
        /\ Cardinality(DOMAIN features.feats) = 23

C10_Witness ==
    /\ ExtractorDone
    /\ Len(group) = 1
    /\ features.status = "ok"
    /\ Cardinality(DOMAIN features.feats) = 23

(***************************************************************************)
(* Properties of build_impedance_feature_table                             *)
(***************************************************************************)
BuilderDone == pc = "done" /\ features_df.status # "none"

\* (cell_id, soh_pct, temp_c, soc_pct) of a row or of a feature record
TestKey(r) == <<r["cell_id"], r["soh_pct"], r["temp_c"], r["soc_pct"]>>

\* C4: the table has one record for each distinct (cell_id, soh_pct,
\* temp_c, soc_pct) of the input rows: the keys of the records are those
\* of the rows, none twice, and rows that differ only in capacity_code
\* share one record
C4_KeySetEquality ==
    BuilderDone =>
        LET recs == features_df.records
        IN  /\ features_df.status = "ok"
            /\ {TestKey(recs[k]) : k \in 1..Len(recs)}
                  = {TestKey(eis_long_df[k]) : k \in 1..Len(eis_long_df)}
            /\ \A a, b \in 1..Len(recs) : a # b => TestKey(recs[a]) # TestKey(recs[b])
            /\ \A k \in 1..Len(recs) : "capacity_code" \notin DOMAIN recs[k]

C4_Witness ==
    /\ BuilderDone
    /\ Len(eis_long_df) = 3
    /\ TestKey(eis_long_df[1]) = TestKey(eis_long_df[2])
    /\ eis_long_df[1].capacity_code # eis_long_df[2].capacity_code
    /\ TestKey(eis_long_df[3]) # TestKey(eis_long_df[1])
    /\ Len(features_df.records) = 2

====
